---- MODULE Spec2Model ----
(***************************************************************************)
(* Model of enrich_api.py: the address normaliser and matcher, the         *)
(* simplification of the company name, the two-call search protocol of     *)
(* search_company, the officer (dirigeant) loop and the batch loop of      *)
(* enrich_excel_file.                                                      *)
(*                                                                         *)
(* Python strings are TLA+ strings; Len, \o and SubSeq act on them         *)
(* character by character.                                                 *)
(***************************************************************************)
EXTENDS Integers, Sequences, FiniteSets, TLC

VARIABLES
    \* addresses_match, called on its own
    am_original, am_api, am_result, am_pc,
    \* the officer loop of search_company
    dirigeants, dir_idx, autres_dirigeants, nom_dirigeant, prenom_dirigeant,
    qualite_dirigeant, annee_naissance_max, autres_dirigeants_result, dir_pc,
    \* enrich_excel_file and the search protocol of search_company
    registry, rows, idx, pc, primary, fallback, calls, result, df,
    \* clean_address, called on its own
    ca_address, ca_result, ca_pc,
    \* the simplification of the company name at the head of search_company
    ns_company_name, ns_simplified_name, ns_pc

vars == <<am_original, am_api, am_result, am_pc,
          dirigeants, dir_idx, autres_dirigeants, nom_dirigeant, prenom_dirigeant,
          qualite_dirigeant, annee_naissance_max, autres_dirigeants_result, dir_pc,
          registry, rows, idx, pc, primary, fallback, calls, result, df,
          ca_address, ca_result, ca_pc, ns_company_name, ns_simplified_name, ns_pc>>

amVars == <<am_original, am_api, am_result, am_pc>>
dirVars == <<dirigeants, dir_idx, autres_dirigeants, nom_dirigeant, prenom_dirigeant,
             qualite_dirigeant, annee_naissance_max, autres_dirigeants_result, dir_pc>>
runVars == <<registry, rows, idx, pc, primary, fallback, calls, result, df>>
caVars == <<ca_address, ca_result, ca_pc>>
nsVars == <<ns_company_name, ns_simplified_name, ns_pc>>

----------------------------------------------------------------------------
(* Characters and the str methods the program uses.                        *)

Digits == {"0", "1", "2", "3", "4", "5", "6", "7", "8", "9"}
LowerLetters == "abcdefghijklmnopqrstuvwxyzàâçèéî"
UpperLetters == "ABCDEFGHIJKLMNOPQRSTUVWXYZÀÂÇÈÉÎ"
Whitespace == {" ", "\t", "\n"}

Ch(s, i) == SubSeq(s, i, i)

\* the value of a cell that is empty: pandas reads it as float('nan')
NaN == "nan"

LowerSet == {Ch(LowerLetters, i) : i \in 1..Len(LowerLetters)}
UpperSet == {Ch(UpperLetters, i) : i \in 1..Len(UpperLetters)}
\* \w of the re module: letters, digits and the underscore
WordChars == LowerSet \cup UpperSet \cup Digits \cup {"_"}

ToUpper == [c \in LowerSet |->
               Ch(UpperLetters, CHOOSE i \in 1..Len(LowerLetters) : Ch(LowerLetters, i) = c)]
ToLower == [c \in UpperSet |->
               Ch(LowerLetters, CHOOSE i \in 1..Len(UpperLetters) : Ch(UpperLetters, i) = c)]

IsDigit(c) == c \in Digits
IsWordCh(c) == c \in WordChars
IsSpaceCh(c) == c \in Whitespace

LowerCh(c) == IF c \in UpperSet THEN ToLower[c] ELSE c

RECURSIVE LowerFrom(_, _)
LowerFrom(s, i) == IF i > Len(s) THEN "" ELSE LowerCh(Ch(s, i)) \o LowerFrom(s, i + 1)

\* s.lower()
Lower(s) == LowerFrom(s, 1)

UpperCh(c) == IF c \in LowerSet THEN ToUpper[c] ELSE c

RECURSIVE UpperFrom(_, _)
UpperFrom(s, i) == IF i > Len(s) THEN "" ELSE UpperCh(Ch(s, i)) \o UpperFrom(s, i + 1)

\* s.upper()
Upper(s) == UpperFrom(s, 1)

\* the first index from i on that holds no whitespace, Len(s) + 1 when there is none
RECURSIVE SkipSpaces(_, _)
SkipSpaces(s, i) == IF i <= Len(s) /\ IsSpaceCh(Ch(s, i)) THEN SkipSpaces(s, i + 1) ELSE i

\* the last index up to i that holds no whitespace, 0 when there is none
RECURSIVE SkipSpacesBack(_, _)
SkipSpacesBack(s, i) == IF i >= 1 /\ IsSpaceCh(Ch(s, i)) THEN SkipSpacesBack(s, i - 1) ELSE i

\* s.strip()
Strip(s) == SubSeq(s, SkipSpaces(s, 1), SkipSpacesBack(s, Len(s)))

\* sub in s
Contains(sub, s) ==
    \E i \in 1..(Len(s) - Len(sub) + 1) : SubSeq(s, i, i + Len(sub) - 1) = sub

\* the end of the run of non-whitespace characters that starts at i
RECURSIVE RunEnd(_, _)
RunEnd(s, i) == IF i < Len(s) /\ ~IsSpaceCh(Ch(s, i + 1)) THEN RunEnd(s, i + 1) ELSE i

RECURSIVE SplitFrom(_, _)
SplitFrom(s, i) ==
    LET b == SkipSpaces(s, i)
        e == RunEnd(s, b)
    IN  IF b > Len(s) THEN <<>> ELSE <<SubSeq(s, b, e)>> \o SplitFrom(s, e + 1)

\* s.split(): the whitespace-separated words of s
Split(s) == SplitFrom(s, 1)

\* sep.join(words)
RECURSIVE Join(_, _)
Join(words, sep) ==
    IF words = <<>> THEN ""
    ELSE IF Len(words) = 1 THEN words[1]
    ELSE words[1] \o sep \o Join(Tail(words), sep)

WordSet(s) == LET words == Split(s) IN {words[i] : i \in 1..Len(words)}

----------------------------------------------------------------------------
(* clean_address                                                           *)

\* the end of the run of \w characters that starts at i
RECURSIVE WordEnd(_, _)
WordEnd(s, i) == IF i < Len(s) /\ IsWordCh(Ch(s, i + 1)) THEN WordEnd(s, i + 1) ELSE i

\* the six re.sub(r'\bWORD\b', abbreviation, address), in their order, on one whole word
Abbreviate(word) ==
    LET w1 == IF word = "BOULEVARD" THEN "BD" ELSE word
        w2 == IF w1 = "AVENUE" THEN "AV" ELSE w1
        w3 == IF w2 = "ROUTE" THEN "RTE" ELSE w2
        w4 == IF w3 = "RUE" THEN "R" ELSE w3
        w5 == IF w4 = "SAINT" THEN "ST" ELSE w4
    IN  IF w5 = "SAINTE" THEN "STE" ELSE w5

\* the substitutions on every match: \b...\b matches a whole maximal run of \w characters
RECURSIVE SubWords(_, _)
SubWords(s, i) ==
    IF i > Len(s) THEN ""
    ELSE IF IsWordCh(Ch(s, i))
         THEN LET e == WordEnd(s, i)
              IN  Abbreviate(SubSeq(s, i, e)) \o SubWords(s, e + 1)
         ELSE Ch(s, i) \o SubWords(s, i + 1)

\* SubSpecial with the special characters deleted
RECURSIVE SubSpecialDelete(_, _)
SubSpecialDelete(s, i) ==
    IF i > Len(s) THEN ""
    ELSE (IF IsWordCh(Ch(s, i)) \/ IsSpaceCh(Ch(s, i)) THEN Ch(s, i) ELSE "")
         \o SubSpecialDelete(s, i + 1)

\* re.sub(r'[^\w\s]', ' ', s)
RECURSIVE SubSpecial(_, _)
SubSpecial(s, i) ==
    IF i > Len(s) THEN ""
    ELSE (IF IsWordCh(Ch(s, i)) \/ IsSpaceCh(Ch(s, i)) THEN Ch(s, i) ELSE " ")
         \o SubSpecial(s, i + 1)

\* re.sub(r'\s+', ' ', s).strip()
CollapseSpaces(s) == Join(Split(s), " ")

\* a missing cell (pd.isna) and the empty string give ""
clean_address(address) ==
    IF address = "" \/ address = NaN THEN ""
    ELSE CollapseSpaces(SubSpecial(SubWords(Upper(address), 1), 1))

----------------------------------------------------------------------------
(* addresses_match                                                         *)

Placeholders == {"·", ".", "-", "/"}

\* re.search(r'\b\d{5}\b', s): the first run of \w characters that is five digits, or ""
RECURSIVE PostalCodeFrom(_, _)
PostalCodeFrom(s, i) ==
    IF i > Len(s) THEN ""
    ELSE IF IsWordCh(Ch(s, i))
         THEN LET e == WordEnd(s, i)
                  w == SubSeq(s, i, e)
              IN  IF Len(w) = 5 /\ \A k \in 1..5 : IsDigit(Ch(w, k))
                  THEN w
                  ELSE PostalCodeFrom(s, e + 1)
         ELSE PostalCodeFrom(s, i + 1)

PostalCode(s) == PostalCodeFrom(s, 1)

\* len(common_words) >= max(2, len(original_words) * 0.3), in tenths
EnoughCommonWords(common, original_words) ==
    LET need == IF 20 >= 3 * Cardinality(original_words) THEN 20
                ELSE 3 * Cardinality(original_words)
    IN  10 * Cardinality(common) >= need

\* addresses_match without the comparison of the postal codes
addresses_match_no_veto(original_address, api_address) ==
    IF original_address = "" \/ api_address = "" THEN FALSE
    ELSE IF Strip(original_address) \in Placeholders THEN FALSE
    ELSE LET norm_original == clean_address(original_address)
             norm_api == clean_address(api_address)
             original_words == WordSet(norm_original)
             api_words == WordSet(norm_api)
         IN  IF norm_original = "" \/ norm_api = "" THEN FALSE
             ELSE IF Contains(norm_original, norm_api) \/ Contains(norm_api, norm_original)
                  THEN TRUE
             ELSE EnoughCommonWords(original_words \cap api_words, original_words)

addresses_match(original_address, api_address) ==
    IF original_address = "" \/ api_address = "" THEN FALSE
    ELSE IF Strip(original_address) \in Placeholders THEN FALSE
    ELSE LET norm_original == clean_address(original_address)
             norm_api == clean_address(api_address)
             original_words == WordSet(norm_original)
             api_words == WordSet(norm_api)
             common_words == original_words \cap api_words
             original_cp == PostalCode(original_address)
             api_cp == PostalCode(api_address)
         IN  IF norm_original = "" \/ norm_api = "" THEN FALSE
             ELSE IF Contains(norm_original, norm_api) \/ Contains(norm_api, norm_original)
                  THEN TRUE
             ELSE IF original_cp # "" /\ api_cp # "" /\ original_cp # api_cp THEN FALSE
             ELSE EnoughCommonWords(common_words, original_words)

----------------------------------------------------------------------------
(* The officer (dirigeant) loop of search_company.                         *)
(* A raw officer is [nom, prenoms, qualite, annee, type_dirigeant], the    *)
(* values the loop reads with .get(); all are strings.                     *)

annee_actuelle == 2026
MaxAutresDirigeants == 5

DigitValues == [c \in Digits |-> CHOOSE n \in 0..9 : ToString(n) = c]

DigitValue(c) == DigitValues[c]

IsNumeric(s) == s # "" /\ \A i \in 1..Len(s) : IsDigit(Ch(s, i))

\* int(annee) of a string of digits
RECURSIVE ParseInt(_)
ParseInt(s) ==
    IF s = "" THEN 0 ELSE 10 * ParseInt(SubSeq(s, 1, Len(s) - 1)) + DigitValue(Ch(s, Len(s)))

\* s1 > s2 on str: the first differing character decides, a proper prefix is smaller
RECURSIVE StrGreater(_, _)
StrGreater(s1, s2) ==
    IF s1 = "" THEN FALSE
    ELSE IF s2 = "" THEN TRUE
    ELSE IF Ch(s1, 1) # Ch(s2, 1) THEN DigitValue(Ch(s1, 1)) > DigitValue(Ch(s2, 1))
    ELSE StrGreater(SubSeq(s1, 2, Len(s1)), SubSeq(s2, 2, Len(s2)))

\* s.split(sep)[0]
RECURSIVE SplitFirst(_, _)
SplitFirst(s, sep) ==
    IF Len(s) < Len(sep) THEN s
    ELSE IF SubSeq(s, 1, Len(sep)) = sep THEN ""
    ELSE Ch(s, 1) \o SplitFirst(SubSeq(s, 2, Len(s)), sep)

\* prenoms.split()[0] if prenoms and ' ' in prenoms else prenoms
PremierPrenom(prenoms) ==
    IF prenoms # "" /\ Contains(" ", prenoms) THEN Split(prenoms)[1] ELSE prenoms

\* nom.split('(')[0].strip() when nom holds both parentheses
NomPrincipal(nom) ==
    IF nom # "" /\ Contains("(", nom) /\ Contains(")", nom)
    THEN Strip(SplitFirst(nom, "("))
    ELSE nom

EstPersonneMorale(type_dirigeant, prenoms, nom) ==
    \/ type_dirigeant = "personne_morale"
    \/ /\ prenoms = ""
       /\ \E forme \in {"SA", "SAS", "SARL", "SCI", "EURL"} : Contains(forme, nom)

\* f"{annee_actuelle - int(annee)} ans", '' when annee is empty or int() raises
AgeOf(annee) ==
    IF annee # "" /\ IsNumeric(annee)
    THEN ToString(annee_actuelle - ParseInt(annee)) \o " ans"
    ELSE ""

Identifiant(nom, premier_prenom) == nom \o "_" \o premier_prenom

DirigeantInfo(dirigeant) ==
    LET nom0 == Strip(dirigeant.nom)
        prenoms == Strip(dirigeant.prenoms)
        premier_prenom == PremierPrenom(prenoms)
        nom == NomPrincipal(nom0)
    IN  [nom |-> nom,
         prenoms |-> prenoms,
         premier_prenom |-> premier_prenom,
         qualite |-> Strip(dirigeant.qualite),
         annee |-> dirigeant.annee,
         age |-> AgeOf(dirigeant.annee),
         est_personne_morale |-> EstPersonneMorale(dirigeant.type_dirigeant, prenoms, nom0),
         identifiant |-> Identifiant(nom, premier_prenom)]

\* the index of the first entry with the identifiant, 0 when there is none
ExistingIndex(autres, identifiant) ==
    IF \E i \in 1..Len(autres) : autres[i].identifiant = identifiant
    THEN CHOOSE i \in 1..Len(autres) :
             /\ autres[i].identifiant = identifiant
             /\ \A j \in 1..(i - 1) : autres[j].identifiant # identifiant
    ELSE 0

\* MergeDirigeant without the search for an entry of the same identifiant
MergeDirigeantAppend(autres, info) == Append(autres, info)

\* the de-duplication: an entry of the same identifiant is overwritten by one
\* with a longer prenoms string, and a new identifiant is appended
MergeDirigeant(autres, info) ==
    LET i == ExistingIndex(autres, info.identifiant)
    IN  IF i = 0 THEN Append(autres, info)
        ELSE IF Len(autres[i].prenoms) < Len(info.prenoms)
             THEN [autres EXCEPT ![i] = info]
             ELSE autres

\* annee and (not annee_naissance_max or annee > annee_naissance_max)
IsYounger(annee, annee_max) ==
    annee # "" /\ (annee_max = "" \/ StrGreater(annee, annee_max))

\* one iteration of the loop over dirigeants
ProcessDirigeant(st, dirigeant) ==
    LET info == DirigeantInfo(dirigeant)
        provisional == st.nom_dirigeant = "" /\ st.prenom_dirigeant = "" /\ info.nom # ""
        nom1 == IF provisional THEN info.nom ELSE st.nom_dirigeant
        prenom1 == IF provisional THEN info.premier_prenom ELSE st.prenom_dirigeant
        qualite1 == IF provisional THEN info.qualite ELSE st.qualite_dirigeant
        younger == IsYounger(info.annee, st.annee_naissance_max)
    IN  [autres_dirigeants |-> MergeDirigeant(st.autres_dirigeants, info),
         nom_dirigeant |-> IF younger THEN info.nom ELSE nom1,
         prenom_dirigeant |-> IF younger THEN info.premier_prenom ELSE prenom1,
         qualite_dirigeant |-> IF younger THEN info.qualite ELSE qualite1,
         annee_naissance_max |-> IF younger THEN info.annee ELSE st.annee_naissance_max]

DirigeantsStart ==
    [autres_dirigeants |-> <<>>, nom_dirigeant |-> "", prenom_dirigeant |-> "",
     qualite_dirigeant |-> "", annee_naissance_max |-> "0"]

\* FilterPrincipal comparing the whole prenoms string with the primary's first name
FilterPrincipalPrenoms(autres, nom, prenom) ==
    SelectSeq(autres, LAMBDA d : ~(d.nom = nom /\ d.prenoms = prenom))

\* autres_dirigeants without the entries of the primary officer's nom and premier_prenom
FilterPrincipal(autres, nom, prenom) ==
    SelectSeq(autres, LAMBDA d : ~(d.nom = nom /\ d.premier_prenom = prenom))

\* LimitAutres without the limit
LimitAutresAll(filtres) ==
    [i \in 1..Len(filtres) |->
        [nom |-> filtres[i].nom,
         prenoms |-> filtres[i].premier_prenom,
         qualite |-> filtres[i].qualite,
         age |-> filtres[i].age,
         est_personne_morale |-> filtres[i].est_personne_morale]]

\* the first min(5, len) entries, as the dicts that are returned
LimitAutres(filtres) ==
    LET n == IF Len(filtres) < MaxAutresDirigeants THEN Len(filtres) ELSE MaxAutresDirigeants
    IN  [i \in 1..n |->
            [nom |-> filtres[i].nom,
             prenoms |-> filtres[i].premier_prenom,
             qualite |-> filtres[i].qualite,
             age |-> filtres[i].age,
             est_personne_morale |-> filtres[i].est_personne_morale]]

AutresDirigeantsResult(st) ==
    LimitAutres(FilterPrincipal(st.autres_dirigeants, st.nom_dirigeant, st.prenom_dirigeant))

\* age of the primary officer
AgeDirigeant(annee_max) ==
    IF annee_max # "" /\ annee_max # "0" THEN AgeOf(annee_max) ELSE ""

----------------------------------------------------------------------------
(* search_company: the fallback selection, the choice among the candidates *)
(* and the entity that is returned.                                        *)
(* A candidate is [siren, nom_complet, description, activite_principale,   *)
(* adresse, dirigeants]; adresse is siege.adresse.                         *)

None == [siren |-> "None"]

StreetWords ==
    {"rue", "avenue", "boulevard", "bd", "av", "rte", "route", "allée", "all", "chemin",
     "impasse", "place", "quai"}

HasDigit(p) == \E i \in 1..Len(p) : IsDigit(Ch(p, i))

\* " ".join([p for p in address.split() if any digit in p or p.lower() in street words])
AddressSearch(address) ==
    Join(SelectSeq(Split(address), LAMBDA p : HasDigit(p) \/ Lower(p) \in StreetWords), " ")

\* FallbackDue without the test of the query made from the address
FallbackDueAnyQuery(address) ==
    /\ address # NaN
    /\ address # ""
    /\ Strip(address) \notin Placeholders

\* the conditions under which the second request is made after an empty first one;
\* on a missing address, address.strip() raises and the except clause returns None
FallbackDue(address) ==
    /\ address # NaN
    /\ address # ""
    /\ Strip(address) \notin Placeholders
    /\ Strip(AddressSearch(address)) # ""

Min(a, b) == IF a < b THEN a ELSE b
Max(a, b) == IF a > b THEN a ELSE b

\* string_similarity: common + length_diff * 5, kept as the fraction num/den with
\* den = max(len(s1), len(s2))
string_similarity(s1, s2) ==
    LET u1 == Upper(s1)
        u2 == Upper(s2)
        common == Cardinality({i \in 1..Min(Len(u1), Len(u2)) : Ch(u1, i) = Ch(u2, i)})
        den == Max(Len(u1), Len(u2))
    IN  [num |-> common * den + 5 * (den - (Max(Len(u1), Len(u2)) - Min(Len(u1), Len(u2)))),
         den |-> den]

\* ScoreGreater with an equal score taken as a greater one
ScoreAtLeast(a, b) == a.num * b.den >= b.num * a.den

\* score > best_score, on fractions
ScoreGreater(a, b) == a.num * b.den > b.num * a.den
ScoreAboveTen(a) == a.num > 10 * a.den
MinusOne == [num |-> -1, den |-> 1]

electrical_keywords ==
    {"ELEC", "ELECTR", "ELECTRIC", "ELECTRONIQUE", "CÂBLAGE", "CABLAGE", "CABL", "INSTAL",
     "COURANT", "TELECOM", "ENERGI", "ENERGIE"}

has_electrical_keyword(r) ==
    LET combined_text == Upper(r.nom_complet \o " " \o r.description \o " " \o r.activite_principale)
    IN  \E keyword \in electrical_keywords : Contains(keyword, combined_text)

\* the loop over address_results, from its i-th element on
RECURSIVE SelectLoop(_, _, _, _)
SelectLoop(company_name, address_results, i, st) ==
    IF i > Len(address_results) THEN st
    ELSE LET r == address_results[i]
             score == string_similarity(company_name, r.nom_complet)
             byName == ScoreAboveTen(score) /\ ScoreGreater(score, st.best_score)
             st1 == IF byName
                    THEN [st EXCEPT !.best_score = score, !.best_match = i]
                    ELSE st
             byActivity == /\ has_electrical_keyword(r)
                           /\ (st.best_activity_match = 0
                               \/ ScoreGreater(score, st.best_activity_score))
             st2 == IF byActivity
                    THEN [st1 EXCEPT !.best_activity_score = score, !.best_activity_match = i]
                    ELSE st1
         IN  SelectLoop(company_name, address_results, i + 1, st2)

\* SelectedMatch without the match by activity
SelectedMatchByName(company_name, address_results) ==
    SelectLoop(company_name, address_results, 1,
               [best_match |-> 0, best_score |-> MinusOne,
                best_activity_match |-> 0, best_activity_score |-> MinusOne]).best_match

\* the index in address_results of selected_match, 0 for None
SelectedMatch(company_name, address_results) ==
    LET st == SelectLoop(company_name, address_results, 1,
                         [best_match |-> 0, best_score |-> MinusOne,
                          best_activity_match |-> 0, best_activity_score |-> MinusOne])
    IN  IF st.best_match # 0 THEN st.best_match ELSE st.best_activity_match

\* the loop over results from its i-th element on: the index of the first address
\* match, 0 when there is none
RECURSIVE FirstAddressMatch(_, _, _)
FirstAddressMatch(address, results, i) ==
    IF i > Len(results) THEN 0
    ELSE IF addresses_match(address, results[i].adresse) THEN i
    ELSE FirstAddressMatch(address, results, i + 1)

\* BestMatch with the first result taken whatever the addresses
BestMatchFirst(address, results) == 1

\* the index in results of best_match: the first address match, else the first result
BestMatch(address, results) ==
    LET i == FirstAddressMatch(address, results, 1)
    IN  IF i = 0 THEN 1 ELSE i

RECURSIVE DirigeantsLoop(_, _, _)
DirigeantsLoop(ds, i, st) ==
    IF i > Len(ds) THEN st ELSE DirigeantsLoop(ds, i + 1, ProcessDirigeant(st, ds[i]))

\* the dict search_company returns for best_match
Entity(address, best_match) ==
    LET st == DirigeantsLoop(best_match.dirigeants, 1, DirigeantsStart)
    IN  [siren |-> best_match.siren,
         nom_raison_sociale |-> best_match.nom_complet,
         adresse |-> best_match.adresse,
         nom_dirigeant |-> st.nom_dirigeant,
         prenom_dirigeant |-> st.prenom_dirigeant,
         qualite_dirigeant |-> st.qualite_dirigeant,
         age_dirigeant |-> AgeDirigeant(st.annee_naissance_max),
         match_adresse |-> IF addresses_match(address, best_match.adresse) THEN "Oui" ELSE "Non",
         autres_dirigeants |-> AutresDirigeantsResult(st)]

\* what search_company returns once it holds a non-empty list results; on a missing
\* address addresses_match raises on address.strip() and the except clause returns None
Resolve(address, results) ==
    IF address = NaN THEN None
    ELSE Entity(address, results[BestMatch(address, results)])

\* what search_company returns after a second request answered 200 with address_results
FallbackOutcome(company_name, address, address_results) ==
    IF address_results = <<>> THEN None
    ELSE LET sel == SelectedMatch(company_name, address_results)
         IN  IF sel = 0 THEN None ELSE Resolve(address, <<address_results[sel]>>)

\* what search_company returns after a first request answered 200 with no candidate,
\* when the registry answers the second request, if it is made, with resp
EmptyPrimaryOutcome(company_name, address, resp) ==
    IF ~FallbackDue(address) THEN None
    ELSE IF resp.status # "200" THEN None
    ELSE FallbackOutcome(company_name, address, resp.results)

----------------------------------------------------------------------------
(* The simplification of the company name into the query of the first      *)
(* request.                                                                *)

cities ==
    {"PARIS", "LYON", "MARSEILLE", "TOULOUSE", "NICE", "NANTES", "MONTPELLIER",
     "STRASBOURG", "BORDEAUX", "LILLE", "RENNES", "REIMS", "TOULON", "GRENOBLE",
     "DIJON", "ANGERS", "NÎMES", "VILLEURBANNE", "SAINT-DENIS", "ASNIÈRES", "CAEN",
     "SAINT-ÉTIENNE", "ROUEN", "NANCY", "ORLÉANS", "LIMOGES", "MULHOUSE",
     "SAINT-PAUL", "ROUBAIX", "DUNKERQUE", "PERPIGNAN", "AMIENS", "BOULOGNE",
     "BESANÇON", "BREST", "CANNES", "METZ", "ANTIBES", "HONFLEUR", "HYMER", "FECAMP"}

\* the dash of the third and fourth separators is U+2013 in the source; it is written
\* "~" here
EnDash == "~"

\* the separators, in the order the loop tries them
Separators == <<" - ", " | ", " " \o EnDash \o " ", " " \o EnDash \o " ", " : ", " / ">>

\* the index in s of the first occurrence of sub from i on, 0 when there is none
RECURSIVE IndexFrom(_, _, _)
IndexFrom(sub, s, i) ==
    IF i + Len(sub) - 1 > Len(s) THEN 0
    ELSE IF SubSeq(s, i, i + Len(sub) - 1) = sub THEN i
    ELSE IndexFrom(sub, s, i + 1)

\* s.split(separator)[0].strip()
BeforeSeparator(s, separator) ==
    LET i == IndexFrom(separator, s, 1)
    IN  IF i = 0 THEN Strip(s) ELSE Strip(SubSeq(s, 1, i - 1))

\* the loop over the separators from the k-th on: the first separator of the list that
\* occurs in the name cuts it, and the loop ends
RECURSIVE SeparatorLoop(_, _)
SeparatorLoop(name, k) ==
    IF k > Len(Separators) THEN name
    ELSE IF Contains(Separators[k], name) THEN BeforeSeparator(name, Separators[k])
    ELSE SeparatorLoop(name, k + 1)

\* ' '.join(words[-i:])
LastWords(words, i) == Join(SubSeq(words, Len(words) - i + 1, Len(words)), " ")

\* ' '.join(words[:-i])
ButLastWords(words, i) == Join(SubSeq(words, 1, Len(words) - i), " ")

\* the test that opens the removal of a city
EndsWithCity(words) ==
    \/ words[Len(words)] \in cities
    \/ LastWords(words, Min(2, Len(words))) \in cities
    \/ Len(words) > 2 /\ LastWords(words, 3) \in cities

\* ST or SAINT followed by a city, at the end of more than two words
SaintCity(words) ==
    /\ Len(words) > 2
    /\ words[Len(words) - 1] \in {"ST", "SAINT"}
    /\ words[Len(words)] \in cities

\* the loop for i in range(1, min(4, len(words))) from i on
RECURSIVE CityLoop(_, _, _)
CityLoop(name, words, i) ==
    IF i >= Min(4, Len(words)) THEN name
    ELSE IF LastWords(words, i) \in cities THEN ButLastWords(words, i)
    ELSE CityLoop(name, words, i + 1)

\* StripCity without the case of ST or SAINT before the city
StripCityNoSaint(name) ==
    LET words == Split(Upper(name))
    IN  IF Len(words) > 1 /\ EndsWithCity(words) THEN CityLoop(name, words, 1) ELSE name

\* the removal of a city at the end of the name
StripCity(name) ==
    LET words == Split(Upper(name))
    IN  IF Len(words) > 1 /\ EndsWithCity(words)
        THEN IF SaintCity(words)
             THEN IF Len(words) > 3 THEN ButLastWords(words, 2) ELSE name
             ELSE CityLoop(name, words, 1)
        ELSE name

\* simplified_name, the q of the first request
SimplifiedName(name) == StripCity(SeparatorLoop(name, 1))

----------------------------------------------------------------------------
(* Values the variables of a part of the program hold while another part   *)
(* is the one being run.                                                   *)

AmIdle ==
    /\ am_original = "" /\ am_api = "" /\ am_result = FALSE /\ am_pc = "idle"

RunIdle ==
    /\ registry = {} /\ rows = <<>> /\ idx = 0 /\ pc = "idle" /\ primary = None /\ fallback = None
    /\ calls = <<>> /\ result = None /\ df = <<>>

DirIdle ==
    /\ dirigeants = <<>> /\ dir_idx = 0 /\ autres_dirigeants = <<>>
    /\ nom_dirigeant = "" /\ prenom_dirigeant = "" /\ qualite_dirigeant = ""
    /\ annee_naissance_max = "0" /\ autres_dirigeants_result = <<>> /\ dir_pc = "idle"

CaIdle ==
    /\ ca_address = "" /\ ca_result = <<>> /\ ca_pc = "idle"

NsIdle ==
    /\ ns_company_name = "" /\ ns_simplified_name = "" /\ ns_pc = "idle"

----------------------------------------------------------------------------
(* addresses_match called on two address strings.                          *)

MaxAddrTokens == 2

AddrTokens == {"10 Rue", "CS75001", "75001", "75002,", "Paris"}

RECURSIVE TokenSeqs(_)
TokenSeqs(n) ==
    IF n = 0 THEN {<<>>}
    ELSE TokenSeqs(n - 1) \cup
         {Append(ts, t) : ts \in {x \in TokenSeqs(n - 1) : Len(x) = n - 1}, t \in AddrTokens}

Addresses == {Join(ts, " ") : ts \in TokenSeqs(MaxAddrTokens)}

AmCall ==
    /\ am_pc = "call"
    /\ am_result' = addresses_match(am_original, am_api)
    /\ am_pc' = "done"
    /\ UNCHANGED <<am_original, am_api>>
    /\ UNCHANGED <<dirVars, runVars, caVars, nsVars>>

----------------------------------------------------------------------------
(* clean_address called on an address string, and again on its result.     *)
(* An address is a concatenation of at most MaxAtoms atoms.                *)

MaxAtoms == 3

AddrAtoms == {"R", "ue", "SAINT", "e", "Boulevard", " ", "-", "_", "7", "é"}

RECURSIVE AtomStrings(_)
AtomStrings(n) ==
    IF n = 0 THEN {""}
    ELSE AtomStrings(n - 1) \cup {s \o a : s \in AtomStrings(n - 1), a \in AddrAtoms}

CaCall ==
    /\ ca_pc = "call"
    /\ ca_result' = <<clean_address(ca_address)>>
    /\ ca_pc' = "again"
    /\ UNCHANGED ca_address
    /\ UNCHANGED <<amVars, dirVars, runVars, nsVars>>

CaAgain ==
    /\ ca_pc = "again"
    /\ ca_result' = Append(ca_result, clean_address(ca_result[1]))
    /\ ca_pc' = "done"
    /\ UNCHANGED ca_address
    /\ UNCHANGED <<amVars, dirVars, runVars, nsVars>>

InitClean ==
    /\ ca_address \in AtomStrings(MaxAtoms) \cup {NaN}
    /\ ca_result = <<>>
    /\ ca_pc = "call"
    /\ AmIdle
    /\ DirIdle
    /\ RunIdle
    /\ NsIdle

NextClean ==
    \/ CaCall
    \/ CaAgain

SpecClean == InitClean /\ [][NextClean]_vars

----------------------------------------------------------------------------
(* The simplification run on a company name: at most MaxNameTokens tokens  *)
(* separated by one space.                                                 *)

MaxNameTokens == 4

NameTokens == {"Dupont", "Electricité", "Paris", "SAINT", "St", "-", "|", "Saint-Denis"}

RECURSIVE NameSeqs(_)
NameSeqs(n) ==
    IF n = 0 THEN {<<>>}
    ELSE NameSeqs(n - 1) \cup
         {Append(ts, t) : ts \in {x \in NameSeqs(n - 1) : Len(x) = n - 1}, t \in NameTokens}

CompanyNames == {Join(ts, " ") : ts \in NameSeqs(MaxNameTokens) \ {<<>>}}

Simplify ==
    /\ ns_pc = "call"
    /\ ns_simplified_name' = SimplifiedName(ns_company_name)
    /\ ns_pc' = "done"
    /\ UNCHANGED ns_company_name
    /\ UNCHANGED <<amVars, dirVars, runVars, caVars>>

InitName ==
    /\ ns_company_name \in CompanyNames
    /\ ns_simplified_name = ""
    /\ ns_pc = "call"
    /\ AmIdle
    /\ DirIdle
    /\ RunIdle
    /\ CaIdle

NextName == Simplify

SpecName == InitName /\ [][NextName]_vars

----------------------------------------------------------------------------
(* The officer loop run on a list of raw officers: a few officers of the   *)
(* registry around an optional block of further, distinct officers.        *)

MaxCore == 3
MaxBlock == 5

Officer(nom, prenoms, qualite, annee, type_dirigeant) ==
    [nom |-> nom, prenoms |-> prenoms, qualite |-> qualite, annee |-> annee,
     type_dirigeant |-> type_dirigeant]

RawOfficers ==
    {Officer("DUPONT", "Jean", "Gerant", "1985", "personne_physique"),
     Officer("DUPONT (MARTIN)", "Jean Paul", "Gerant", "", "personne_physique"),
     Officer("BERNARD", "Anne", "President", "1972", "personne_physique"),
     Officer("MARTIN", "Luc", "Directeur", "985", "personne_physique"),
     Officer("HOLDING SAS", "", "Associe", "", "")}

BlockOfficer(i) ==
    Officer("ASSOCIE" \o ToString(i), "Paul", "Associe", "", "personne_physique")

RECURSIVE OfficerSeqs(_)
OfficerSeqs(n) ==
    IF n = 0 THEN {<<>>}
    ELSE OfficerSeqs(n - 1) \cup
         {Append(ds, d) : ds \in {x \in OfficerSeqs(n - 1) : Len(x) = n - 1}, d \in RawOfficers}

OfficerLists ==
    {SubSeq(core, 1, k) \o [i \in 1..b |-> BlockOfficer(i)] \o SubSeq(core, k + 1, Len(core)) :
        <<core, k, b>> \in {t \in OfficerSeqs(MaxCore) \X (0..MaxCore) \X {0, MaxBlock} :
                               t[2] <= Len(t[1])}}

DirState ==
    [autres_dirigeants |-> autres_dirigeants, nom_dirigeant |-> nom_dirigeant,
     prenom_dirigeant |-> prenom_dirigeant, qualite_dirigeant |-> qualite_dirigeant,
     annee_naissance_max |-> annee_naissance_max]

\* for dirigeant in dirigeants: one iteration
DirigeantStep ==
    /\ dir_pc = "loop"
    /\ dir_idx < Len(dirigeants)
    /\ LET st == ProcessDirigeant(DirState, dirigeants[dir_idx + 1])
       IN  /\ autres_dirigeants' = st.autres_dirigeants
           /\ nom_dirigeant' = st.nom_dirigeant
           /\ prenom_dirigeant' = st.prenom_dirigeant
           /\ qualite_dirigeant' = st.qualite_dirigeant
           /\ annee_naissance_max' = st.annee_naissance_max
    /\ dir_idx' = dir_idx + 1
    /\ UNCHANGED <<dirigeants, autres_dirigeants_result, dir_pc>>
    /\ UNCHANGED <<amVars, runVars, caVars, nsVars>>

\* after the loop: the alternates that are returned
BuildAutres ==
    /\ dir_pc = "loop"
    /\ dir_idx = Len(dirigeants)
    /\ autres_dirigeants_result' = AutresDirigeantsResult(DirState)
    /\ dir_pc' = "done"
    /\ UNCHANGED <<dirigeants, dir_idx, autres_dirigeants, nom_dirigeant, prenom_dirigeant,
                   qualite_dirigeant, annee_naissance_max>>
    /\ UNCHANGED <<amVars, runVars, caVars, nsVars>>

----------------------------------------------------------------------------
(* enrich_excel_file: the loop over the rows, with search_company run for  *)
(* each row up to its two requests.  A response of the registry is         *)
(* [status, results]: "200" with a list of candidates, another status, or  *)
(* "exception" when requests.get raises (a timeout, a transport error).    *)
(* registry is the set of responses the registry may give during the run.  *)

MaxRows == 2
MaxResults == 2

Candidate(siren, nom_complet, description, activite_principale, adresse, ds) ==
    [siren |-> siren, nom_complet |-> nom_complet, description |-> description,
     activite_principale |-> activite_principale, adresse |-> adresse, dirigeants |-> ds]

Candidates ==
    {Candidate("111", "DUPONT ET FILS SARL", "", "", "10 RUE 75001",
               <<Officer("DUPONT", "Jean", "Gerant", "1985", "personne_physique"),
                 Officer("BERNARD", "Anne", "President", "1972", "personne_physique")>>),
     Candidate("222", "ELECTRICITE DU NORD", "", "43.21A", "10 RUE 75002",
               <<Officer("MARTIN", "Luc", "Directeur", "", "personne_physique")>>),
     Candidate("333", "BOULANGERIE X", "pain", "10.71C", "5 AV FOCH 69000", <<>>),
     Candidate("444", "SUD SERVICES", "installation telecom", "", "10 RUE 75001", <<>>),
     Candidate("555", "ELECTRICITE DE LYON", "", "43.21A", "10 RUE 75001", <<>>),
     Candidate("666", "DUPONT ET FILS SASU", "", "", "5 AV FOCH 69000", <<>>)}

RECURSIVE ResultLists(_)
ResultLists(n) ==
    IF n = 0 THEN {<<>>}
    ELSE ResultLists(n - 1) \cup
         {Append(rs, c) : rs \in {x \in ResultLists(n - 1) : Len(x) = n - 1}, c \in Candidates}

Failures == {[status |-> "500", results |-> <<>>], [status |-> "exception", results |-> <<>>]}

Responses ==
    {[status |-> "200", results |-> rs] : rs \in ResultLists(MaxResults)} \cup Failures

\* the responses of a registry that knows of one company at most per request
BatchResponses ==
    {[status |-> "200", results |-> rs] : rs \in ResultLists(1)} \cup Failures

Row(company, address) == [Company |-> company, Address |-> address]

Rows ==
    {Row("  ", "10 Rue 75001"),
     Row("", "Paris"),
     Row(NaN, "10 Rue 75001"),
     Row("Dupont et Fils", "10 Rue 75001"),
     Row("Dupont et Fils", "Paris"),
     Row("Dupont et Fils", "-"),
     Row("Dupont et Fils", ""),
     Row("Dupont et Fils", NaN)}

\* the rows of the files of several rows: the rows without a company name, and a
\* company with an address and with a missing one
BatchRows ==
    {r \in Rows : r.Company \in {"  ", "", NaN} \/ r.Address \in {"10 Rue 75001", NaN}}

RECURSIVE RowLists(_)
RowLists(n) ==
    IF n = 0 THEN {<<>>}
    ELSE RowLists(n - 1) \cup
         {Append(rs, r) : rs \in {x \in RowLists(n - 1) : Len(x) = n - 1}, r \in BatchRows}

\* pd.isna(company_name) or not company_name.strip()
Blank(company_name) == company_name = NaN \/ Strip(company_name) = ""

\* a request: its row, and the status and number of results of its answer
Call(kind, resp) ==
    [row |-> idx, kind |-> kind, status |-> resp.status, n |-> Len(resp.results)]

\* search_company returns r: the result columns of the row are filled if r is a match
Return(r) ==
    /\ result' = r
    /\ df' = IF r # None THEN [df EXCEPT ![idx] = r] ELSE df
    /\ pc' = "row"

\* a row with an empty company name is skipped
SkipRow ==
    /\ pc = "row"
    /\ idx < Len(rows)
    /\ Blank(rows[idx + 1].Company)
    /\ idx' = idx + 1
    /\ UNCHANGED <<registry, rows, pc, primary, fallback, calls, result, df>>
    /\ UNCHANGED <<amVars, dirVars, caVars, nsVars>>

\* StartRow with search_company called for a row without a company name as well
StartRowAny ==
    /\ pc = "row"
    /\ idx < Len(rows)
    /\ idx' = idx + 1
    /\ pc' = "primary"
    /\ primary' = None
    /\ fallback' = None
    /\ UNCHANGED <<registry, rows, calls, result, df>>
    /\ UNCHANGED <<amVars, dirVars, caVars, nsVars>>

\* search_company is called for the next row
StartRow ==
    /\ pc = "row"
    /\ idx < Len(rows)
    /\ ~Blank(rows[idx + 1].Company)
    /\ idx' = idx + 1
    /\ pc' = "primary"
    /\ primary' = None
    /\ fallback' = None
    /\ UNCHANGED <<registry, rows, calls, result, df>>
    /\ UNCHANGED <<amVars, dirVars, caVars, nsVars>>

\* PrimaryFailed with a failure handled as an empty list of results is
PrimaryFailedAsEmpty ==
    /\ pc = "primary"
    /\ \E resp \in registry :
          /\ resp.status # "200"
          /\ primary' = resp
          /\ calls' = Append(calls, Call("primary", resp))
    /\ IF FallbackDue(rows[idx].Address)
       THEN pc' = "fallback" /\ UNCHANGED <<result, df>>
       ELSE Return(None)
    /\ UNCHANGED <<registry, rows, idx, fallback>>
    /\ UNCHANGED <<amVars, dirVars, caVars, nsVars>>

\* the first request fails: a status other than 200, or an exception
PrimaryFailed ==
    /\ pc = "primary"
    /\ \E resp \in registry :
          /\ resp.status # "200"
          /\ primary' = resp
          /\ calls' = Append(calls, Call("primary", resp))
    /\ Return(None)
    /\ UNCHANGED <<registry, rows, idx, fallback>>
    /\ UNCHANGED <<amVars, dirVars, caVars, nsVars>>

\* the first request returns candidates
PrimaryFound ==
    /\ pc = "primary"
    /\ \E resp \in registry :
          /\ resp.status = "200"
          /\ resp.results # <<>>
          /\ primary' = resp
          /\ calls' = Append(calls, Call("primary", resp))
          /\ Return(Resolve(rows[idx].Address, resp.results))
    /\ UNCHANGED <<registry, rows, idx, fallback>>
    /\ UNCHANGED <<amVars, dirVars, caVars, nsVars>>

\* the first request returns no candidate: the second request is due, or None is returned
PrimaryEmpty ==
    /\ pc = "primary"
    /\ \E resp \in registry :
          /\ resp.status = "200"
          /\ resp.results = <<>>
          /\ primary' = resp
          /\ calls' = Append(calls, Call("primary", resp))
    /\ IF FallbackDue(rows[idx].Address)
       THEN pc' = "fallback" /\ UNCHANGED <<result, df>>
       ELSE Return(None)
    /\ UNCHANGED <<registry, rows, idx, fallback>>
    /\ UNCHANGED <<amVars, dirVars, caVars, nsVars>>

\* FallbackFailed with the second request made again after a failure
FallbackFailedRetry ==
    /\ pc = "fallback"
    /\ \E resp \in registry :
          /\ resp.status # "200"
          /\ fallback' = resp
          /\ calls' = Append(calls, Call("fallback", resp))
    /\ IF Len(calls) < 3 * Len(rows)
       THEN UNCHANGED <<pc, result, df>>
       ELSE Return(None)
    /\ UNCHANGED <<registry, rows, idx, primary>>
    /\ UNCHANGED <<amVars, dirVars, caVars, nsVars>>

\* the second request fails
FallbackFailed ==
    /\ pc = "fallback"
    /\ \E resp \in registry :
          /\ resp.status # "200"
          /\ fallback' = resp
          /\ calls' = Append(calls, Call("fallback", resp))
    /\ Return(None)
    /\ UNCHANGED <<registry, rows, idx, primary>>
    /\ UNCHANGED <<amVars, dirVars, caVars, nsVars>>

\* the second request is answered
FallbackAnswered ==
    /\ pc = "fallback"
    /\ \E resp \in registry :
          /\ resp.status = "200"
          /\ fallback' = resp
          /\ calls' = Append(calls, Call("fallback", resp))
          /\ Return(FallbackOutcome(rows[idx].Company, rows[idx].Address, resp.results))
    /\ UNCHANGED <<registry, rows, idx, primary>>
    /\ UNCHANGED <<amVars, dirVars, caVars, nsVars>>

\* Finish with an exception of a request ending the loop over the rows
FinishOnException ==
    /\ pc = "row"
    /\ \/ idx = Len(rows)
       \/ calls # <<>> /\ calls[Len(calls)].status = "exception"
    /\ pc' = "done"
    /\ UNCHANGED <<registry, rows, idx, primary, fallback, calls, result, df>>
    /\ UNCHANGED <<amVars, dirVars, caVars, nsVars>>

\* the loop over the rows has ended: the statistics and the files are written
Finish ==
    /\ pc = "row"
    /\ idx = Len(rows)
    /\ pc' = "done"
    /\ UNCHANGED <<registry, rows, idx, primary, fallback, calls, result, df>>
    /\ UNCHANGED <<amVars, dirVars, caVars, nsVars>>

----------------------------------------------------------------------------
(* The specifications.                                                     *)

RunInit(batches, responses) ==
    /\ registry = responses
    /\ rows \in batches
    /\ idx = 0
    /\ pc = "row"
    /\ primary = None
    /\ fallback = None
    /\ calls = <<>>
    /\ result = None
    /\ df = [i \in 1..Len(rows) |-> None]
    /\ AmIdle
    /\ DirIdle
    /\ CaIdle
    /\ NsIdle

\* one row, and every response of the registry
Init == RunInit({<<r>> : r \in Rows}, Responses)

\* several rows
InitBatch == RunInit(RowLists(MaxRows), BatchResponses)

Next ==
    \/ SkipRow
    \/ StartRow
    \/ PrimaryFailed
    \/ PrimaryFound
    \/ PrimaryEmpty
    \/ FallbackFailed
    \/ FallbackAnswered
    \/ Finish

Spec == Init /\ [][Next]_vars

SpecBatch == InitBatch /\ [][Next]_vars

InitOfficers ==
    /\ dirigeants \in OfficerLists
    /\ dir_idx = 0
    /\ autres_dirigeants = DirigeantsStart.autres_dirigeants
    /\ nom_dirigeant = DirigeantsStart.nom_dirigeant
    /\ prenom_dirigeant = DirigeantsStart.prenom_dirigeant
    /\ qualite_dirigeant = DirigeantsStart.qualite_dirigeant
    /\ annee_naissance_max = DirigeantsStart.annee_naissance_max
    /\ autres_dirigeants_result = <<>>
    /\ dir_pc = "loop"
    /\ AmIdle
    /\ RunIdle
    /\ CaIdle
    /\ NsIdle

NextOfficers ==
    \/ DirigeantStep
    \/ BuildAutres

SpecOfficers == InitOfficers /\ [][NextOfficers]_vars

InitAddr ==
    /\ am_original \in Addresses
    /\ am_api \in Addresses
    /\ am_result = FALSE
    /\ am_pc = "call"
    /\ DirIdle
    /\ RunIdle
    /\ CaIdle
    /\ NsIdle

NextAddr == AmCall

SpecAddr == InitAddr /\ [][NextAddr]_vars

----------------------------------------------------------------------------
(* Properties of one resolution and of the batch.                          *)

\* the calls made for row r, as indices of calls
CallsOf(r) == {i \in 1..Len(calls) : calls[i].row = r}

\* search_company has returned for the current row
Resolved == pc \in {"row", "done"} /\ idx >= 1 /\ primary # None

\* C1: a resolution issues at most two search calls, and a second call for a row is
\* issued only after the first one was answered 200 with zero candidates.
C1_AtMostTwoCalls ==
    /\ \A r \in 1..Len(rows) : Cardinality(CallsOf(r)) <= 2
    /\ \A i, j \in 1..Len(calls) :
          (i < j /\ calls[i].row = calls[j].row) => (calls[i].status = "200" /\ calls[i].n = 0)

C1_Witness ==
    /\ pc = "row"
    /\ Cardinality(CallsOf(idx)) = 2
    /\ result # None

\* C2 as claimed: a failed call is treated as a call answered with zero candidates; after
\* a failed first request the second request is made when it is due after an empty one,
\* and the outcome is the one of an empty first answer, whatever the registry would
\* answer to the second request.
C2_FailureLikeEmpty ==
    Resolved =>
        /\ primary.status # "200" =>
              /\ (fallback # None) = FallbackDue(rows[idx].Address)
              /\ \A resp \in registry :
                    result = EmptyPrimaryOutcome(rows[idx].Company, rows[idx].Address, resp)
        /\ (fallback # None /\ fallback.status # "200") =>
              result = FallbackOutcome(rows[idx].Company, rows[idx].Address, <<>>)

\* C2 amended: a failed second request is treated as a second request answered with zero
\* candidates; a failed first request ends the resolution with no match and without the
\* second request.
C2_FailedCallEndsResolution ==
    Resolved =>
        /\ primary.status # "200" =>
              /\ result = None
              /\ fallback = None
              /\ Cardinality(CallsOf(idx)) = 1
        /\ (fallback # None /\ fallback.status # "200") =>
              result = FallbackOutcome(rows[idx].Company, rows[idx].Address, <<>>)

C2_Witness ==
    /\ Resolved
    /\ primary.status # "200"
    /\ FallbackDue(rows[idx].Address)
    /\ \E resp \in registry :
          EmptyPrimaryOutcome(rows[idx].Company, rows[idx].Address, resp) # None

\* C3: a failed search call is not retried (it is the last call of its row), the row's
\* result stays None, and the loop goes on: it never stops before the last row, and at
\* its end every row with a company name has been searched.
C3_FailureIsLocal ==
    /\ \A i \in 1..Len(calls) :
          calls[i].status # "200" =>
              /\ \A j \in 1..Len(calls) : j > i => calls[j].row # calls[i].row
              /\ df[calls[i].row] = None
    /\ pc = "done" =>
          /\ idx = Len(rows)
          /\ \A r \in 1..Len(rows) : ~Blank(rows[r].Company) => CallsOf(r) # {}
    /\ pc # "done" => ENABLED Next

C3_Witness ==
    /\ pc = "done"
    /\ \E i \in 1..Len(calls) :
          /\ calls[i].status = "exception"
          /\ \E r \in 1..Len(rows) : r > calls[i].row /\ df[r] # None

----------------------------------------------------------------------------
(* Properties of the officer loop.                                         *)

\* the last name and first first-name the loop derives from the i-th raw officer
PairOf(i) ==
    LET info == DirigeantInfo(dirigeants[i]) IN <<info.nom, info.premier_prenom>>

PrincipalPair == <<nom_dirigeant, prenom_dirigeant>>

AutrePair(k) == <<autres_dirigeants_result[k].nom, autres_dirigeants_result[k].prenoms>>

\* the raw officers that are the first of their pair and not the primary officer
FirstOccurrences ==
    {i \in 1..Len(dirigeants) :
        /\ PairOf(i) # PrincipalPair
        /\ \A j \in 1..(i - 1) : PairOf(j) # PairOf(i)}

\* the k-th of them in the order of the input
NthFirstOccurrence(k) ==
    CHOOSE i \in FirstOccurrences : Cardinality({j \in FirstOccurrences : j < i}) = k - 1

\* C4: no alternate has both the primary officer's last name and first first-name.
C4_PrincipalNotInAutres ==
    dir_pc = "done" =>
        \A k \in 1..Len(autres_dirigeants_result) : AutrePair(k) # PrincipalPair

C4_Witness ==
    /\ dir_pc = "done"
    /\ nom_dirigeant # ""
    /\ Len(autres_dirigeants_result) >= 1
    /\ Cardinality({i \in 1..Len(dirigeants) : PairOf(i) = PrincipalPair}) >= 2
    /\ \E i \in 1..Len(dirigeants) :
          PairOf(i) = PrincipalPair /\ Contains("(", dirigeants[i].nom)

\* C5: no two alternates share the identity key lastName + "_" + firstFirstName.
C5_AutresKeysUnique ==
    dir_pc = "done" =>
        \A k, l \in 1..Len(autres_dirigeants_result) :
            k # l =>
                Identifiant(AutrePair(k)[1], AutrePair(k)[2])
                    # Identifiant(AutrePair(l)[1], AutrePair(l)[2])

C5_Witness ==
    /\ dir_pc = "done"
    /\ Len(autres_dirigeants_result) >= 2
    /\ \E i, j \in 1..Len(dirigeants) :
          /\ i < j
          /\ dirigeants[i] # dirigeants[j]
          /\ Contains("(", dirigeants[j].nom)
          /\ PairOf(i) = PairOf(j)
          /\ \E k \in 1..Len(autres_dirigeants_result) : AutrePair(k) = PairOf(i)

\* the largest birth year, as a number, among the raw officers that have one
MaxBirthYear ==
    CHOOSE y \in {ParseInt(dirigeants[i].annee) :
                     i \in {k \in 1..Len(dirigeants) : dirigeants[k].annee # ""}} :
        \A i \in 1..Len(dirigeants) :
            dirigeants[i].annee # "" => ParseInt(dirigeants[i].annee) <= y

\* C6 as claimed: when some officer has a birth year, the primary officer is an officer
\* of the numerically highest birth year.
C6_PrincipalIsYoungest ==
    (dir_pc = "done" /\ \E i \in 1..Len(dirigeants) : dirigeants[i].annee # "") =>
        \E i \in 1..Len(dirigeants) :
            /\ dirigeants[i].annee # ""
            /\ ParseInt(dirigeants[i].annee) = MaxBirthYear
            /\ PairOf(i) = PrincipalPair

\* C7 as claimed: when exactly two raw officers have a given last name and first
\* first-name, one with and one without a birth year, the de-duplicated list keeps a
\* single entry for them and that entry has the birth year and the age.
C7_MergeKeepsBirthYear ==
    dir_pc = "done" =>
        \A i, j \in 1..Len(dirigeants) :
            (/\ i # j
             /\ PairOf(i) = PairOf(j)
             /\ \A k \in 1..Len(dirigeants) : PairOf(k) = PairOf(i) => k \in {i, j}
             /\ dirigeants[i].annee = ""
             /\ dirigeants[j].annee # "") =>
                LET kept == {k \in 1..Len(autres_dirigeants) :
                               <<autres_dirigeants[k].nom,
                                 autres_dirigeants[k].premier_prenom>> = PairOf(i)}
                IN  /\ Cardinality(kept) = 1
                    /\ \A k \in kept : /\ autres_dirigeants[k].annee = dirigeants[j].annee
                                        /\ autres_dirigeants[k].age # ""

\* C8: the alternates are the officers that are first of their (last name, first
\* first-name) pair and are not the primary officer, in the order of the input, cut to
\* the first 5.
C8_AutresAreFirstOccurrences ==
    dir_pc = "done" =>
        /\ Len(autres_dirigeants_result) = Min(MaxAutresDirigeants, Cardinality(FirstOccurrences))
        /\ \A k \in 1..Len(autres_dirigeants_result) : AutrePair(k) = PairOf(NthFirstOccurrence(k))

C8_Witness ==
    /\ dir_pc = "done"
    /\ Cardinality(FirstOccurrences) > MaxAutresDirigeants
    /\ Len(autres_dirigeants_result) = MaxAutresDirigeants
    /\ \E i, j \in 1..Len(dirigeants) : i < j /\ PairOf(i) = PairOf(j) /\ PairOf(i) # PrincipalPair
    /\ \E i \in 1..Len(dirigeants) : i > 1 /\ PairOf(i) = PrincipalPair

----------------------------------------------------------------------------
(* Properties of the fallback selection and of addresses_match.            *)

\* the first request was answered with no candidate and the second with some
FallbackProtocol ==
    /\ Resolved
    /\ primary.status = "200" /\ primary.results = <<>>
    /\ fallback # None
    /\ fallback.status = "200" /\ fallback.results # <<>>

\* the candidates of the second answer that hold an electrical keyword, as indices
KeywordMatches ==
    {i \in 1..Len(fallback.results) : has_electrical_keyword(fallback.results[i])}

FallbackScore(i) == string_similarity(rows[idx].Company, fallback.results[i].nom_complet)

\* C9 as claimed: in the fallback protocol, a single candidate with an electrical
\* keyword is the one returned, whatever the scores.
C9_SingleKeywordMatchReturned ==
    (FallbackProtocol /\ Cardinality(KeywordMatches) = 1) =>
        \A i \in KeywordMatches :
            result # None /\ result.siren = fallback.results[i].siren

\* C9 amended: in the fallback protocol, a single candidate with an electrical keyword
\* is the one returned, also with a score of at most 10, when no other candidate has a
\* score above 10.
C9_SingleKeywordMatchUnlessNameMatch ==
    (FallbackProtocol /\ Cardinality(KeywordMatches) = 1) =>
        \A i \in KeywordMatches :
            (\A j \in 1..Len(fallback.results) : j # i => ~ScoreAboveTen(FallbackScore(j))) =>
                result # None /\ result.siren = fallback.results[i].siren

C9_Witness ==
    /\ FallbackProtocol
    /\ Len(fallback.results) >= 2
    /\ Cardinality(KeywordMatches) = 1
    /\ \A j \in 1..Len(fallback.results) : ~ScoreAboveTen(FallbackScore(j))
    /\ \E i \in KeywordMatches : i = 2 /\ result.siren = fallback.results[i].siren

\* both addresses hold a postal code and the codes differ
PostalCodesDiffer ==
    /\ PostalCode(am_original) # ""
    /\ PostalCode(am_api) # ""
    /\ PostalCode(am_original) # PostalCode(am_api)

\* one normalised address is contained in the other
Containment ==
    \/ Contains(clean_address(am_original), clean_address(am_api))
    \/ Contains(clean_address(am_api), clean_address(am_original))

\* C10 as claimed: two addresses with differing postal codes never match.
C10_PostalCodeVeto ==
    (am_pc = "done" /\ PostalCodesDiffer) => am_result = FALSE

\* C10 amended: two addresses with differing postal codes do not match, unless one
\* normalised address is contained in the other.
C10_PostalCodeVetoAfterContainment ==
    (am_pc = "done" /\ PostalCodesDiffer /\ ~Containment) => am_result = FALSE

C10_Witness ==
    /\ am_pc = "done"
    /\ PostalCodesDiffer
    /\ ~Containment
    /\ Cardinality(WordSet(clean_address(am_original)) \cap WordSet(clean_address(am_api))) >= 2
    /\ am_result = FALSE

\* C13: a row whose company name is empty, blank or missing is skipped: no call is made
\* for it, its result columns stay unset, and the rows after it are processed.
C13_BlankRowSkipped ==
    /\ \A r \in 1..idx :
          Blank(rows[r].Company) => (CallsOf(r) = {} /\ df[r] = None)
    /\ pc = "done" =>
          /\ idx = Len(rows)
          /\ \A r \in 1..Len(rows) : ~Blank(rows[r].Company) => CallsOf(r) # {}
    /\ (pc = "row" /\ idx < Len(rows) /\ Blank(rows[idx + 1].Company)) => ENABLED SkipRow

C13_Witness ==
    /\ pc = "done"
    /\ Len(rows) = 2
    /\ rows[1].Company \in {"", NaN}
    /\ CallsOf(1) = {}
    /\ df[2] # None

----------------------------------------------------------------------------
(* Properties of the choice of the candidate.                              *)

\* the first request was answered with candidates and search_company has returned
PrimaryProtocol == Resolved /\ primary.status = "200" /\ primary.results # <<>>

\* the candidates of rs whose address matches the address of the row, as indices
AddressMatches(rs) ==
    {i \in 1..Len(rs) : addresses_match(rows[idx].Address, rs[i].adresse)}

\* the smallest element of a set of indices
First(indices) == CHOOSE i \in indices : \A j \in indices : i <= j

\* C16 as claimed: from a non-empty list of candidates the first one whose address
\* matches is chosen, the first of the list when none matches, and an entity is always
\* returned.
C16_FirstMatchOrFirst ==
    PrimaryProtocol =>
        LET rs == primary.results
            k == IF AddressMatches(rs) = {} THEN 1 ELSE First(AddressMatches(rs))
        IN  /\ result # None
            /\ result = Entity(rows[idx].Address, rs[k])

\* the candidates of the second answer with a score above 10, as indices
NameMatches ==
    {i \in 1..Len(fallback.results) : ScoreAboveTen(FallbackScore(i))}

\* the first of the candidates of indices that have the highest score among them
FirstHighest(indices) ==
    First({i \in indices :
              \A j \in indices :
                  FallbackScore(j).num * FallbackScore(i).den
                      <= FallbackScore(i).num * FallbackScore(j).den})

\* C17: in the fallback protocol the candidate selected is the highest score above 10,
\* else the highest score among the candidates with a keyword, else there is no match;
\* of equal scores the earliest candidate is taken.
C17_FallbackSelection ==
    FallbackProtocol =>
        IF NameMatches # {}
        THEN result = Entity(rows[idx].Address, fallback.results[FirstHighest(NameMatches)])
        ELSE IF KeywordMatches # {}
        THEN result = Entity(rows[idx].Address, fallback.results[FirstHighest(KeywordMatches)])
        ELSE result = None

C17_Witness ==
    /\ FallbackProtocol
    /\ Len(fallback.results) = 2
    /\ fallback.results[1] # fallback.results[2]
    /\ FallbackScore(1) = FallbackScore(2)
    /\ NameMatches = {}
    /\ KeywordMatches = {1, 2}
    /\ result # None /\ result.siren = fallback.results[1].siren

\* C18: after a first request answered with no candidate, an address that is empty or a
\* placeholder, or that gives an empty query, ends the resolution with no match and
\* without a second request.
C18_NoFallbackWithoutQuery ==
    (/\ Resolved
     /\ primary.status = "200" /\ primary.results = <<>>
     /\ \/ rows[idx].Address \in {"", NaN}
        \/ Strip(rows[idx].Address) \in Placeholders
        \/ Strip(AddressSearch(rows[idx].Address)) = "") =>
        /\ result = None
        /\ fallback = None
        /\ \A i \in CallsOf(idx) : calls[i].kind = "primary"
        /\ Cardinality(CallsOf(idx)) = 1

C18_Witness ==
    /\ Resolved
    /\ primary.status = "200" /\ primary.results = <<>>
    /\ rows[idx].Address = "Paris"
    /\ result = None
    /\ Cardinality(CallsOf(idx)) = 1

\* the list of candidates handed to the choice by address: the first answer, or the
\* candidate selected from the second answer
ResultsHanded ==
    IF primary.results # <<>> THEN primary.results
    ELSE <<fallback.results[SelectedMatch(rows[idx].Company, fallback.results)]>>

\* C19: the flag of a returned entity is the match of the address of the row with the
\* address of the entity, and it is "Oui" whenever a candidate of the list handed to the
\* choice matches.
C19_FlagIsAddressMatch ==
    (Resolved /\ result # None) =>
        /\ result.match_adresse =
              (IF addresses_match(rows[idx].Address, result.adresse) THEN "Oui" ELSE "Non")
        /\ AddressMatches(ResultsHanded) # {} => result.match_adresse = "Oui"
        /\ \E i \in 1..Len(ResultsHanded) : result.siren = ResultsHanded[i].siren

C19_Witness ==
    /\ PrimaryProtocol
    /\ result # None
    /\ Len(primary.results) = 2
    /\ AddressMatches(primary.results) = {2}
    /\ result.match_adresse = "Oui"
    /\ result.siren = primary.results[2].siren

----------------------------------------------------------------------------
(* Properties of clean_address.                                            *)

\* C11: clean_address is idempotent: applied to its own result, it returns that result.
C11_CleanAddressIdempotent ==
    ca_pc = "done" => ca_result[2] = ca_result[1]

C11_Witness ==
    /\ ca_pc = "done"
    /\ Contains("Boulevard", ca_address)
    /\ Contains("-", ca_address)
    /\ Contains("BD ", ca_result[1])
    /\ ca_result[2] = ca_result[1]

----------------------------------------------------------------------------
(* Properties of the simplification of the company name.                   *)

\* the name once the separators are dealt with, its words as written and in upper case
AfterSeparator == SeparatorLoop(ns_company_name, 1)
WordsWritten == Split(AfterSeparator)
WordsUpper == Split(Upper(AfterSeparator))
SimplifiedWords == Split(Upper(ns_simplified_name))

\* the last word is a city and the simplification removed it, and it alone
CityStripped ==
    /\ Len(WordsUpper) > 1
    /\ WordsUpper[Len(WordsUpper)] \in cities
    /\ SimplifiedWords = SubSeq(WordsUpper, 1, Len(WordsUpper) - 1)

\* C12 as claimed: when the city that ends a name is stripped, the simplified name is the
\* words before it exactly as they are written in the name, letter case included.
C12_StrippedNameAsWritten ==
    (ns_pc = "done" /\ CityStripped) =>
        ns_simplified_name = ButLastWords(WordsWritten, 1)

\* the indices at which a separator occurs in the name
SeparatorIndices ==
    {i \in 1..Len(ns_company_name) :
        \E k \in 1..Len(Separators) :
            /\ i + Len(Separators[k]) - 1 <= Len(ns_company_name)
            /\ SubSeq(ns_company_name, i, i + Len(Separators[k]) - 1) = Separators[k]}

\* the name before its left-most separator
LeftmostPrefix ==
    LET i == CHOOSE x \in SeparatorIndices : \A y \in SeparatorIndices : x <= y
    IN  Strip(SubSeq(ns_company_name, 1, i - 1))

\* C14 as claimed: a name that holds separators is cut before the left-most occurrence
\* of any of them (a city that ends what is kept is then removed as in any name).
C14_CutAtLeftmostSeparator ==
    (ns_pc = "done" /\ SeparatorIndices # {}) =>
        ns_simplified_name = StripCity(LeftmostPrefix)

\* the smallest number of last words, below the number of words, that form a city;
\* 0 when there is none
ShortestCity ==
    LET n == Len(WordsUpper)
        ms == {i \in 1..Min(3, n - 1) : LastWords(WordsUpper, i) \in cities}
    IN  IF ms = {} THEN 0 ELSE CHOOSE i \in ms : \A j \in ms : i <= j

\* C15 as claimed: unless the words are more than 3 and end with ST or SAINT and a city,
\* the shortest city that ends the name is dropped, also from 3 words "X SAINT city".
C15_ShortestCityDropped ==
    (/\ ns_pc = "done"
     /\ ~(SaintCity(WordsUpper) /\ Len(WordsUpper) > 3)
     /\ ShortestCity > 0) =>
        SimplifiedWords = SubSeq(WordsUpper, 1, Len(WordsUpper) - ShortestCity)

\* C15 amended: when the words end with ST or SAINT and a city, both are dropped from
\* more than 3 words and the name is left as it is when the words are 3; in every other
\* case the shortest city that ends the name is dropped.
C15_ShortestCityDroppedUnlessSaint ==
    ns_pc = "done" =>
        /\ (SaintCity(WordsUpper) /\ Len(WordsUpper) > 3) =>
              SimplifiedWords = SubSeq(WordsUpper, 1, Len(WordsUpper) - 2)
        /\ (SaintCity(WordsUpper) /\ Len(WordsUpper) = 3) =>
              ns_simplified_name = AfterSeparator
        /\ (~SaintCity(WordsUpper) /\ ShortestCity > 0) =>
              SimplifiedWords = SubSeq(WordsUpper, 1, Len(WordsUpper) - ShortestCity)

C15_Witness ==
    /\ ns_pc = "done"
    /\ SaintCity(WordsUpper)
    /\ Len(WordsUpper) = 3
    /\ ShortestCity = 1
    /\ ns_simplified_name = ns_company_name

====
